---- MODULE Spec2Model ----
(***************************************************************************)
(* Vision-to-Workflow Navigator: the front-end agent state machine         *)
(* (App.tsx, AgentView), the automation driver (playwright-runner.ts) and  *)
(* the oracle adapter with its deterministic fallback (speech.ts).         *)
(*                                                                         *)
(* Texts are sequences of one-character strings, so that toLowerCase,      *)
(* includes and trim are computed and not assumed.                         *)
(***************************************************************************)
EXTENDS Integers, Sequences, FiniteSets, TLC

VARIABLES
    agentState,   \* App.tsx: useState<AgentState>(initialState)
    timers,       \* pending setTimeout pairs of handleGoalSubmit, oldest first
    runs,         \* one closure per handleExecute call, in call order
    submits,      \* number of goals submitted so far (bounded)
    goal,         \* classifier / oracle: the goal text under analysis
    clsPc,        \* classifier harness position
    plan,         \* classifier harness: result of generateActionsFromGoal
    mock,         \* classifier harness: result of generateMockAnalysis
    orPc,         \* analyzeScreen position
    orKey,        \* speech.ts: API_KEY is non-empty
    orResponse,   \* text of the remote response, a token sequence
    orResult,     \* what analyzeScreen returned
    page,         \* playwright-runner.ts: module variable page
    wfActions,    \* executeWorkflow: parameter actions
    wfI,          \* executeWorkflow: loop index i
    wfLogs,       \* executeWorkflow: local logs
    wfPc,         \* executeWorkflow position
    wfResult,     \* executeWorkflow: the returned ExecutionResult
    wfAttempts,   \* the calls of executeAction so far: index and locator resolved
    wfOps,        \* driver operations issued, in order
    genPc,        \* artifact generator harness position
    genState,     \* the final goal, action list and log the artifacts are made from
    genFirst,     \* what the first generation produced
    genSecond,    \* what the second generation produced
    fePc,         \* findElement harness position
    feArgs,       \* findElement: the page, the element and what the lookups meet
    feResult,     \* findElement: the selector returned, <<>> for null
    voicePc,         \* voice harness position
    speechSupported, \* window.SpeechRecognition || window.webkitSpeechRecognition
    input,           \* AgentView: useState('') input
    isListening,     \* AgentView: useState(false) isListening
    recPc,           \* the recognition object of the platform: idle, active, closing
    slResult,        \* startListening: what it returned, reported and started
    brPc,            \* browser harness position
    browser,         \* playwright-runner.ts: module variable browser
    brCalls,         \* initBrowser, navigateTo and closeBrowser calls in flight
    browsers,        \* the browsers launched so far: open or closed
    launches,        \* chromium.launch calls since the last closeBrowser call
    brClosed         \* a closeBrowser has completed and no call has started since

uiVars == <<agentState, timers, runs, submits>>
clsVars == <<goal, clsPc, plan, mock>>
orVars == <<orPc, orKey, orResponse, orResult>>
wfVars == <<page, wfActions, wfI, wfLogs, wfPc, wfResult, wfAttempts, wfOps>>
genVars == <<genPc, genState, genFirst, genSecond>>
feVars == <<fePc, feArgs, feResult>>
voiceVars == <<voicePc, speechSupported, input, isListening, recPc, slResult>>
brVars == <<brPc, browser, brCalls, browsers, launches, brClosed>>
vars == <<agentState, timers, runs, submits, goal, clsPc, plan, mock,
          orPc, orKey, orResponse, orResult,
          page, wfActions, wfI, wfLogs, wfPc, wfResult, wfAttempts, wfOps,
          genPc, genState, genFirst, genSecond, fePc, feArgs, feResult,
          voicePc, speechSupported, input, isListening, recPc, slResult,
          brPc, browser, brCalls, browsers, launches, brClosed>>

\* Bounds of the model.
MaxGoalWords == 2
MaxRespLen == 3
MaxSubmits == 2
MaxRuns == 2
MaxPlanLen == 2
MaxClock == 1
MaxCalls == 3

Undefined == "undefined"

\* let browser: Browser | null = null. A launched browser is denoted by its
\* position in the order of launches.
NoBrowser == 0

-----------------------------------------------------------------------------
(* Texts *)

UpperChars == <<"A", "B", "C", "D", "E", "F", "G", "H", "I", "J", "K", "L", "M",
                "N", "O", "P", "Q", "R", "S", "T", "U", "V", "W", "X", "Y", "Z">>
LowerChars == <<"a", "b", "c", "d", "e", "f", "g", "h", "i", "j", "k", "l", "m",
                "n", "o", "p", "q", "r", "s", "t", "u", "v", "w", "x", "y", "z">>

LowerChar(c) ==
    IF \E i \in DOMAIN UpperChars : UpperChars[i] = c
    THEN LowerChars[CHOOSE i \in DOMAIN UpperChars : UpperChars[i] = c]
    ELSE c

\* The goal compared as typed: the lower-casing forgotten.
keepCase(s) == s

\* String.prototype.toLowerCase
toLowerCase(s) == [i \in DOMAIN s |-> LowerChar(s[i])]

\* String.prototype.includes
includes(s, sub) ==
    \E i \in 0..(Len(s) - Len(sub)) : SubSeq(s, i + 1, i + Len(sub)) = sub

RECURSIVE TrimStart(_)
TrimStart(s) == IF s # <<>> /\ Head(s) = " " THEN TrimStart(Tail(s)) ELSE s

RECURSIVE TrimEnd(_)
TrimEnd(s) ==
    IF s # <<>> /\ s[Len(s)] = " " THEN TrimEnd(SubSeq(s, 1, Len(s) - 1)) ELSE s

\* String.prototype.trim
trim(s) == TrimEnd(TrimStart(s))

\* The vocabulary of the two keyword tables.
kwProduct == <<"p", "r", "o", "d", "u", "c", "t">>
kwFind == <<"f", "i", "n", "d">>
kwCart == <<"c", "a", "r", "t">>
kwAdd == <<"a", "d", "d">>
kwCoupon == <<"c", "o", "u", "p", "o", "n">>
kwApply == <<"a", "p", "p", "l", "y">>
kwCheckout == <<"c", "h", "e", "c", "k", "o", "u", "t">>
kwGuest == <<"g", "u", "e", "s", "t">>

\* The demo goal of the placeholder of the goal input.
CheckoutGoal ==
    <<"F", "i", "n", "d", " ", "a", " ", "p", "r", "o", "d", "u", "c", "t", " ",
      "u", "n", "d", "e", "r", " ", "$", "5", "0", ",", " ", "a", "d", "d", " ",
      "t", "o", " ", "c", "a", "r", "t", ",", " ", "a", "p", "p", "l", "y", " ",
      "c", "o", "u", "p", "o", "n", " ", "S", "A", "V", "E", "2", "0", ",", " ",
      "c", "h", "e", "c", "k", "o", "u", "t", " ", "a", "s", " ", "g", "u", "e",
      "s", "t">>

\* Words the bounded goal texts are built from: every keyword, in mixed case,
\* inside a longer word, and a word outside the vocabulary.
Words ==
    { <<"F", "i", "n", "d">>,
      <<"p", "r", "o", "d", "u", "c", "t">>,
      <<"A", "D", "D">>,
      <<"c", "a", "r", "t">>,
      <<"c", "o", "u", "p", "o", "n">>,
      <<"a", "p", "p", "l", "y">>,
      <<"C", "h", "e", "c", "k", "o", "u", "t">>,
      <<"g", "u", "e", "s", "t">>,
      <<"a", "d", "d", "r", "e", "s", "s">>,
      <<"h", "e", "l", "l", "o">>,
      CheckoutGoal }

RECURSIVE TextsOfWords(_)
TextsOfWords(n) ==
    IF n = 0 THEN { <<>> }
    ELSE LET shorter == TextsOfWords(n - 1)
         IN  shorter \cup Words
                \cup { t \o <<" ">> \o w : t \in shorter \ { <<>> }, w \in Words }

GoalTexts == TextsOfWords(MaxGoalWords)

-----------------------------------------------------------------------------
(* Objects: a record holds exactly the properties the source object has *)

\* An optional property that is absent, where the present value is a record.
Absent == [absent |-> TRUE]

\* obj.key, undefined when the property is absent (string-valued properties)
Field(obj, key) == IF key \in DOMAIN obj THEN obj[key] ELSE Undefined

\* { ...prev, ...changes }
Spread(prev, changes) ==
    [k \in DOMAIN prev \cup DOMAIN changes |->
        IF k \in DOMAIN changes THEN changes[k] ELSE prev[k]]

Box(x, y, w, h) == [x |-> x, y |-> y, width |-> w, height |-> h]

-----------------------------------------------------------------------------
(* Goal classifier: App.tsx generateActionsFromGoal *)

hitsProduct(goalLower) == includes(goalLower, kwProduct) \/ includes(goalLower, kwFind)
hitsCart(goalLower) == includes(goalLower, kwCart) \/ includes(goalLower, kwAdd)
hitsCoupon(goalLower) == includes(goalLower, kwCoupon) \/ includes(goalLower, kwApply)
hitsCheckout(goalLower) == includes(goalLower, kwCheckout) \/ includes(goalLower, kwGuest)

\* The four action templates of the table, in table order.
productAction ==
    [id |-> "1", type |-> "click",
     description |-> "Click on first product under $50",
     order |-> 1, status |-> "pending",
     target |-> [id |-> "prod-1", tag |-> "div",
                 text |-> "Product Card - $29.99",
                 boundingBox |-> Box(10, 20, 20, 15)]]

cartAction ==
    [id |-> "2", type |-> "click",
     description |-> "Click Add to Cart button",
     order |-> 2, status |-> "pending",
     target |-> [id |-> "add-cart", tag |-> "button",
                 text |-> "Add to Cart",
                 boundingBox |-> Box(40, 60, 15, 5)]]

couponAction ==
    [id |-> "3", type |-> "type",
     description |-> "Enter coupon code",
     order |-> 3, status |-> "pending", value |-> "SAVE20",
     target |-> [id |-> "coupon-input", tag |-> "input",
                 text |-> "Coupon code",
                 boundingBox |-> Box(30, 70, 20, 4)]]

checkoutAction ==
    [id |-> "4", type |-> "click",
     description |-> "Proceed to checkout as guest",
     order |-> 4, status |-> "pending",
     target |-> [id |-> "checkout-btn", tag |-> "button",
                 text |-> "Checkout",
                 boundingBox |-> Box(35, 85, 15, 5)]]

\* The checkout rule tested first: its action is pushed ahead of the others.
generateActionsCheckoutFirst(g) ==
    LET goalLower == toLowerCase(g)
    IN  (IF hitsCheckout(goalLower) THEN <<checkoutAction>> ELSE <<>>)
        \o (IF hitsProduct(goalLower) THEN <<productAction>> ELSE <<>>)
        \o (IF hitsCart(goalLower) THEN <<cartAction>> ELSE <<>>)
        \o (IF hitsCoupon(goalLower) THEN <<couponAction>> ELSE <<>>)

generateActionsFromGoal(g) ==
    LET goalLower == toLowerCase(g)
    IN  (IF hitsProduct(goalLower) THEN <<productAction>> ELSE <<>>)
        \o (IF hitsCart(goalLower) THEN <<cartAction>> ELSE <<>>)
        \o (IF hitsCoupon(goalLower) THEN <<couponAction>> ELSE <<>>)
        \o (IF hitsCheckout(goalLower) THEN <<checkoutAction>> ELSE <<>>)

-----------------------------------------------------------------------------
(* Oracle fallback: speech.ts generateMockAnalysis *)

mockSuggestedActions ==
    << "Click on first product under $50", "Click Add to Cart", "Enter coupon code",
       "Click Apply", "Proceed to checkout as guest" >>

mockSummary ==
    "E-commerce product listing page with multiple products, shopping cart, and checkout options"

generateMockAnalysis(g) ==
    LET goalLower == toLowerCase(g)
        e1 == IF includes(goalLower, kwProduct) \/ includes(goalLower, kwFind)
              THEN << [id |-> "prod-1", tag |-> "div",
                       text |-> "Product - Wireless Headphones - $49.99",
                       boundingBox |-> Box(5, 15, 25, 20), clickable |-> TRUE],
                      [id |-> "prod-2", tag |-> "div",
                       text |-> "Product - USB-C Cable - $12.99",
                       boundingBox |-> Box(35, 15, 25, 20), clickable |-> TRUE] >>
              ELSE <<>>
        e2 == IF includes(goalLower, kwCart) \/ includes(goalLower, kwAdd)
              THEN << [id |-> "add-cart-btn", tag |-> "button", text |-> "Add to Cart",
                       boundingBox |-> Box(40, 55, 15, 5), clickable |-> TRUE] >>
              ELSE <<>>
        e3 == IF includes(goalLower, kwCoupon)
              THEN << [id |-> "coupon-input", tag |-> "input", text |-> "Coupon code",
                       boundingBox |-> Box(25, 65, 25, 4), inputable |-> TRUE],
                      [id |-> "apply-coupon-btn", tag |-> "button", text |-> "Apply",
                       boundingBox |-> Box(52, 65, 8, 4), clickable |-> TRUE] >>
              ELSE <<>>
        e4 == IF includes(goalLower, kwCheckout)
              THEN << [id |-> "checkout-btn", tag |-> "button",
                       text |-> "Proceed to Checkout",
                       boundingBox |-> Box(30, 80, 20, 6), clickable |-> TRUE],
                      [id |-> "guest-checkout", tag |-> "button",
                       text |-> "Checkout as Guest",
                       boundingBox |-> Box(35, 40, 18, 5), clickable |-> TRUE] >>
              ELSE <<>>
        nav == << [id |-> "nav-cart", tag |-> "a", text |-> "Cart (0)",
                   boundingBox |-> Box(80, 5, 10, 4), clickable |-> TRUE] >>
    IN  [elements |-> e1 \o e2 \o e3 \o e4 \o nav,
         summary |-> mockSummary,
         suggestedActions |-> mockSuggestedActions]

-----------------------------------------------------------------------------
(* Oracle adapter: speech.ts analyzeScreen *)

\* Goal texts as the user may type them (the input field's raw value).
GoalInputs ==
    { CheckoutGoal,
      <<"a", "d", "d", " ", "t", "o", " ", "c", "a", "r", "t">>,
      <<" ", "h", "e", "l", "l", "o", " ">>,
      <<" ", " ">> }

\* The remote response text, as a sequence of tokens: an opening brace, a
\* closing brace, text that is no JSON, and the members "elements": [...]
\* and "summary": "..." of a JSON object.
RespTokens == { "{", "}", "junk", "elements", "summary" }

RECURSIVE SeqsUpTo(_, _)
SeqsUpTo(S, n) ==
    IF n = 0 THEN { <<>> }
    ELSE LET shorter == SeqsUpTo(S, n - 1)
         IN  shorter \cup { Append(t, x) : t \in { u \in shorter : Len(u) = n - 1 }, x \in S }

Responses == SeqsUpTo(RespTokens, MaxRespLen)

remoteElements ==
    << [id |-> "remote-1", tag |-> "button", text |-> "Buy now",
        boundingBox |-> Box(1, 2, 3, 4), clickable |-> TRUE] >>

remoteSummary == "remote summary"

\* responseText.match(/\{[\s\S]*\}/): from the first opening brace to the last
\* closing brace after it; the empty sequence stands for null (no match).
jsonMatch(text) ==
    LET opens == { i \in DOMAIN text : text[i] = "{" }
        first == CHOOSE i \in opens : \A j \in opens : i <= j
        closes == { j \in DOMAIN text : text[j] = "}" /\ j > first }
        last == CHOOSE j \in closes : \A k \in closes : k <= j
    IN  IF opens = {} THEN <<>>
        ELSE IF closes = {} THEN <<>>
        ELSE SubSeq(text, first, last)

\* JSON.parse of a matched block: an object when the block is an opening
\* brace, members, a closing brace; a SyntaxError otherwise. The object has
\* exactly the properties the block names.
JSONparse(block) ==
    LET inner == SubSeq(block, 2, Len(block) - 1)
        wellFormed == \A i \in DOMAIN inner : inner[i] \in { "elements", "summary" }
        keys == { inner[i] : i \in DOMAIN inner }
    IN  IF wellFormed
        THEN [threw |-> FALSE,
              value |-> [k \in keys |->
                            IF k = "elements" THEN remoteElements ELSE remoteSummary]]
        ELSE [threw |-> TRUE]

\* obj.key || fallback
FieldOr(obj, key, fallback) == IF key \in DOMAIN obj THEN obj[key] ELSE fallback

Returned(v) == [kind |-> "returned", value |-> v]
Thrown == [kind |-> "thrown"]

\* analyzeScreen with JSON.parse outside the try block: a block that fails to
\* parse rejects the promise.
analyzeScreenParseEscapes(hasKey, remote, g) ==
    IF ~hasKey THEN Returned(generateMockAnalysis(g))
    ELSE IF remote.throws THEN Returned(generateMockAnalysis(g))
    ELSE LET m == jsonMatch(remote.text)
         IN  IF m = <<>> THEN Returned(generateMockAnalysis(g))
             ELSE LET parsed == JSONparse(m)
                  IN  IF parsed.threw THEN Thrown
                      ELSE Returned([elements |-> FieldOr(parsed.value, "elements", <<>>),
                                     summary |-> FieldOr(parsed.value, "summary", ""),
                                     suggestedActions |->
                                         FieldOr(parsed.value, "suggestedActions", <<>>)])

\* remote = [throws, text]: whether generateContent / response.text() throws,
\* and the response text otherwise.
analyzeScreen(hasKey, remote, g) ==
    IF ~hasKey THEN Returned(generateMockAnalysis(g))
    ELSE IF remote.throws THEN Returned(generateMockAnalysis(g))
    ELSE LET m == jsonMatch(remote.text)
         IN  IF m = <<>> THEN Returned(generateMockAnalysis(g))
             ELSE LET parsed == JSONparse(m)
                  IN  IF parsed.threw THEN Returned(generateMockAnalysis(g))
                      ELSE Returned([elements |-> FieldOr(parsed.value, "elements", <<>>),
                                     summary |-> FieldOr(parsed.value, "summary", ""),
                                     suggestedActions |->
                                         FieldOr(parsed.value, "suggestedActions", <<>>)])

NoRemote == [throws |-> FALSE, text |-> <<>>]

\* analyzeScreen is called; without a key it returns at once.
OracleCall ==
    /\ orPc = "idle"
    /\ IF orKey
       THEN /\ orPc' = "awaiting"
            /\ UNCHANGED orResult
       ELSE /\ orPc' = "returned"
            /\ orResult' = analyzeScreen(FALSE, NoRemote, goal)
    /\ UNCHANGED <<goal, orKey, orResponse, clsPc, plan, mock>>
    /\ UNCHANGED <<uiVars, wfVars, genVars, feVars, voiceVars, brVars>>

\* generateContent (or response.text()) throws.
OracleRemoteThrows ==
    /\ orPc = "awaiting"
    /\ orResponse' = [throws |-> TRUE, text |-> <<>>]
    /\ orResult' = analyzeScreen(TRUE, orResponse', goal)
    /\ orPc' = "returned"
    /\ UNCHANGED <<goal, orKey, clsPc, plan, mock>>
    /\ UNCHANGED <<uiVars, wfVars, genVars, feVars, voiceVars, brVars>>

\* The remote call answers with some text.
OracleRemoteResponds ==
    /\ orPc = "awaiting"
    /\ \E text \in Responses :
          /\ orResponse' = [throws |-> FALSE, text |-> text]
          /\ orResult' = analyzeScreen(TRUE, orResponse', goal)
    /\ orPc' = "returned"
    /\ UNCHANGED <<goal, orKey, clsPc, plan, mock>>
    /\ UNCHANGED <<uiVars, wfVars, genVars, feVars, voiceVars, brVars>>

-----------------------------------------------------------------------------
(* The two keyword tables applied to a goal text *)

Classify ==
    /\ clsPc \in { "input", "analyzed" }
    /\ plan' = generateActionsFromGoal(goal)
    /\ clsPc' = IF clsPc = "input" THEN "classified" ELSE "both"
    /\ UNCHANGED <<goal, mock, orVars, uiVars, wfVars, genVars, feVars, voiceVars, brVars>>

MockAnalyze ==
    /\ clsPc \in { "input", "classified" }
    /\ mock' = analyzeScreen(FALSE, NoRemote, goal).value
    /\ clsPc' = IF clsPc = "input" THEN "analyzed" ELSE "both"
    /\ UNCHANGED <<goal, plan, orVars, uiVars, wfVars, genVars, feVars, voiceVars, brVars>>

-----------------------------------------------------------------------------
(* Automation driver: playwright-runner.ts *)

\* What page.$(selector) meets for each of the five strategies of findElement:
\* no match, one match, several matches (it resolves to the first), or a
\* selector it rejects.
LookupOutcomes == { "none", "one", "many", "throws" }

\* The live page as one lookup sees it: an outcome per strategy.
LookupCases ==
    { [k \in 1..5 |-> "none"],
      [k \in 1..5 |-> "one"],
      [k \in 1..5 |-> "throws"],
      [k \in 1..5 |-> IF k = 1 THEN "throws" ELSE IF k = 3 THEN "one" ELSE "none"],
      [k \in 1..5 |-> IF k = 1 THEN "many" ELSE IF k = 2 THEN "one" ELSE "none"],
      [k \in 1..5 |-> IF k = 5 THEN "one" ELSE "none"] }

\* A selector is a sequence of text pieces; the empty sequence is the empty
\* string, which the source treats like null and undefined (all falsy).
selectors(element) ==
    << <<"text=", element.text>>,
       <<"[aria-label*=\"", element.text, "\"]">>,
       <<"button:has-text(\"", element.text, "\")">>,
       <<"a:has-text(\"", element.text, "\")">>,
       <<"input[placeholder*=\"", element.text, "\"]">> >>

\* findElement(element) with element defined: the first strategy, in order,
\* whose page.$ resolves to an element; a throwing lookup is skipped. <<>>
\* stands for null.
findElement(pg, element, lookup) ==
    IF pg = "null" THEN <<>>
    ELSE LET hits == { k \in 1..5 : lookup[k] \in { "one", "many" } }
         IN  IF hits = {} THEN <<>>
             ELSE selectors(element)[CHOOSE k \in hits : \A j \in hits : k <= j]

HasTarget(action) == "target" \in DOMAIN action

\* action.target?.selector
targetSelector(action) ==
    IF HasTarget(action) /\ "selector" \in DOMAIN action.target
    THEN action.target.selector
    ELSE <<>>

\* action.target?.boundingBox
targetBox(action) ==
    IF HasTarget(action) /\ "boundingBox" \in DOMAIN action.target
    THEN action.target.boundingBox
    ELSE Absent

successLog(action) ==
    [action |-> action.description, status |-> "success", details |-> "Completed in Nms"]

errorLog(action, message) ==
    [action |-> action.description, status |-> "error", details |-> message]

driverMessage == "driver error"
typeErrorMessage == "Cannot read properties of undefined (reading 'text')"

\* action.target?.selector || await findElement(action.target!)
\* [threw, selector]: findElement(undefined) throws a TypeError when it reads
\* element.text.
resolveSelector(pg, action, lookup) ==
    IF targetSelector(action) # <<>>
    THEN [threw |-> FALSE, selector |-> targetSelector(action)]
    ELSE IF ~HasTarget(action)
    THEN [threw |-> TRUE, selector |-> <<>>]
    ELSE [threw |-> FALSE, selector |-> findElement(pg, action.target, lookup)]

\* The viewport the coordinate click assumes.
ViewportWidth == 800
ViewportHeight == 600

\* The half size left out: the click lands on the top left corner of the box.
boxCorner(box) ==
    [x |-> (box.x * ViewportWidth) \div 100, y |-> (box.y * ViewportHeight) \div 100]

\* (box.x + box.width / 2) / 100 * 800 and (box.y + box.height / 2) / 100 * 600
boxCentre(box) ==
    [x |-> ((2 * box.x + box.width) * ViewportWidth) \div 200,
     y |-> ((2 * box.y + box.height) * ViewportHeight) \div 200]

\* executeAction(action): env.lookup is what the page answers to the lookups,
\* env.opThrows whether the driver operation the step issues throws.
\* The result is the returned log, the driver operations issued, the locator
\* the step resolved (<<>> for none) and whether the operation issued threw.
executeAction(pg, action, env) ==
    IF pg = "null"
    THEN [log |-> errorLog(action, "No page initialized"), ops |-> <<>>, locator |-> <<>>,
          threw |-> FALSE]
    ELSE
    LET r == resolveSelector(pg, action, env.lookup)
        done(op, loc) ==
            IF env.opThrows
            THEN [log |-> errorLog(action, driverMessage), ops |-> <<op>>, locator |-> loc,
                  threw |-> TRUE]
            ELSE [log |-> successLog(action), ops |-> <<op>>, locator |-> loc,
                  threw |-> FALSE]
        nothing(loc) == [log |-> successLog(action), ops |-> <<>>, locator |-> loc,
                         threw |-> FALSE]
        typeError == [log |-> errorLog(action, typeErrorMessage), ops |-> <<>>,
                      locator |-> <<>>, threw |-> FALSE]
    IN  CASE action.type = "click" ->
               IF r.threw THEN typeError
               ELSE IF r.selector # <<>>
               THEN done([op |-> "click", selector |-> r.selector], r.selector)
               ELSE IF targetBox(action) # Absent
               THEN done([op |-> "mouse.click", at |-> boxCentre(targetBox(action))], <<>>)
               ELSE nothing(<<>>)
          [] action.type = "type" ->
               IF r.threw THEN typeError
               ELSE IF r.selector # <<>> /\ Field(action, "value") \notin { Undefined, "" }
               THEN done([op |-> "fill", selector |-> r.selector, value |-> action.value],
                         r.selector)
               ELSE nothing(r.selector)
          [] action.type = "wait" -> done([op |-> "waitForTimeout", ms |-> 1000], <<>>)
          [] action.type = "scroll" -> done([op |-> "evaluate", scrollBy |-> 300], <<>>)
          [] OTHER -> nothing(<<>>)

\* Actions the driver is exercised with: the classifier's click (bounding box,
\* no locator) and type actions, a click with a resolved locator, a click whose
\* target has neither locator nor box, a click on a box of size zero at the
\* left edge, a click with no target, a wait and a scroll.
TestActions ==
    { generateActionsFromGoal(CheckoutGoal)[1],
      generateActionsFromGoal(CheckoutGoal)[3],
      [id |-> "5", type |-> "click", description |-> "Click Buy", order |-> 5,
       status |-> "pending",
       target |-> [id |-> "buy", tag |-> "button", text |-> "Buy",
                   boundingBox |-> Box(50, 50, 0, 0), selector |-> <<"#buy">>]],
      [id |-> "6", type |-> "click", description |-> "Click unknown element",
       order |-> 6, status |-> "pending",
       target |-> [id |-> "ghost", tag |-> "div", text |-> "Ghost"]],
      [id |-> "10", type |-> "click", description |-> "Click thin element",
       order |-> 10, status |-> "pending",
       target |-> [id |-> "thin", tag |-> "hr", text |-> "Thin",
                   boundingBox |-> Box(0, 50, 0, 0)]],
      [id |-> "7", type |-> "click", description |-> "Click nothing", order |-> 7,
       status |-> "pending"],
      [id |-> "8", type |-> "wait", description |-> "Wait", order |-> 8,
       status |-> "pending"],
      [id |-> "9", type |-> "scroll", description |-> "Scroll down", order |-> 9,
       status |-> "pending"] }

TestPlans == SeqsUpTo(TestActions, MaxPlanLen)

\* the i++ of the loop of executeWorkflow
wfNext(i) == i + 1

\* One iteration of the loop of executeWorkflow: onStep, executeAction,
\* logs.push; an error log leads to the recovery wait when a page exists.
WorkflowStep ==
    /\ wfPc = "loop"
    /\ wfI < Len(wfActions)
    /\ \E lookup \in LookupCases, opThrows \in BOOLEAN :
          LET res == executeAction(page, wfActions[wfI + 1],
                                   [lookup |-> lookup, opThrows |-> opThrows])
          IN  /\ wfLogs' = Append(wfLogs, res.log)
              /\ wfAttempts' = Append(wfAttempts,
                                      [index |-> wfI, locator |-> res.locator,
                                       ops |-> res.ops, threw |-> res.threw])
              /\ wfOps' = wfOps \o res.ops
              /\ IF res.log.status = "error" /\ page # "null"
                 THEN /\ wfPc' = "recover"
                      /\ UNCHANGED wfI
                 ELSE /\ wfI' = wfNext(wfI)
                      /\ UNCHANGED wfPc
    /\ UNCHANGED <<page, wfActions, wfResult>>
    /\ UNCHANGED <<uiVars, clsVars, orVars, genVars, feVars, voiceVars, brVars>>

\* await page?.waitForTimeout(500) resolves.
WorkflowRecover ==
    /\ wfPc = "recover"
    /\ wfOps' = Append(wfOps, [op |-> "waitForTimeout", ms |-> 500])
    /\ wfI' = wfNext(wfI)
    /\ wfPc' = "loop"
    /\ UNCHANGED <<page, wfActions, wfLogs, wfResult, wfAttempts>>
    /\ UNCHANGED <<uiVars, clsVars, orVars, genVars, feVars, voiceVars, brVars>>

\* await page?.waitForTimeout(500) throws: nothing catches it, the promise of
\* executeWorkflow rejects.
WorkflowRecoverThrows ==
    /\ wfPc = "recover"
    /\ wfOps' = Append(wfOps, [op |-> "waitForTimeout", ms |-> 500])
    /\ wfPc' = "thrown"
    /\ UNCHANGED <<page, wfActions, wfI, wfLogs, wfResult, wfAttempts>>
    /\ UNCHANGED <<uiVars, clsVars, orVars, genVars, feVars, voiceVars, brVars>>

\* captureScreen().catch(() => undefined) and the return statement.
WorkflowReturn ==
    /\ wfPc = "loop"
    /\ wfI = Len(wfActions)
    /\ \E shotThrows \in BOOLEAN :
          wfResult' =
              [success |-> \A k \in DOMAIN wfLogs : wfLogs[k].status # "error",
               logs |-> wfLogs,
               screenshot |-> IF page = "null" \/ shotThrows
                              THEN Undefined ELSE "data:image/png;base64"]
    /\ wfPc' = "returned"
    /\ UNCHANGED <<page, wfActions, wfI, wfLogs, wfAttempts, wfOps>>
    /\ UNCHANGED <<uiVars, clsVars, orVars, genVars, feVars, voiceVars, brVars>>

-----------------------------------------------------------------------------
(* Front end: App.tsx and the AgentView component *)

\* A text of the log is a sequence of pieces (template literals keep their
\* pieces); timestamps are not part of the state.
initialState ==
    [status |-> "idle", goal |-> <<>>, actions |-> <<>>, logs |-> <<>>,
     artifacts |-> <<>>]

\* Timer delays, in ticks of 500 ms.
AnalysisDelay == 3
PlanDelay == 6
RetryDelay == 1
ArtifactDelay == 2
\* 800 + Math.random() * 700 ms is between 1.6 and 3 ticks: taken as 2. The
\* phase of a loop against the other timers still varies with the tick of the
\* click that starts it and with the retry waits.
StepDelay == 2

\* AgentView: the input form is rendered
FormVisible(state) == state.status \in { "idle", "planning" }

\* AgentView: the Execute Plan and Reset buttons are rendered
ButtonsVisible(state) == state.status = "planning" /\ Len(state.actions) > 0

Timer(kind, due, owner) == [kind |-> kind, due |-> due, owner |-> owner]

\* handleGoalSubmit, first setAgentState
goalReceived(prev, g) ==
    Spread(prev,
        [status |-> "analyzing", goal |-> g,
         logs |-> Append(prev.logs,
                    [action |-> <<"Goal received">>, status |-> "info", details |-> g])])

\* handleGoalSubmit, the 1500 ms timer
analysisDone(prev) ==
    Spread(prev,
        [status |-> "planning",
         logs |-> Append(prev.logs,
                    [action |-> <<"Analyzing screen">>, status |-> "info",
                     details |-> <<"Identifying interactive elements...">>])])

\* generateActionsFromGoal over the goals the form can submit, computed once.
SubmittedPlans ==
    [g \in { trim(typed) : typed \in GoalInputs } |-> generateActionsFromGoal(g)]

\* handleGoalSubmit, the 3000 ms timer: generateActionsFromGoal(goal)
planGenerated(prev, g) ==
    LET actions == SubmittedPlans[g]
    IN  Spread(prev,
            [status |-> "planning", actions |-> actions,
             logs |-> Append(prev.logs,
                        [action |-> <<"Plan generated">>, status |-> "success",
                         details |-> <<ToString(Len(actions)), " actions proposed">>])])

\* handleExecute, first setAgentState
executionStarted(prev) ==
    Spread(prev,
        [status |-> "executing", currentStep |-> 0,
         logs |-> Append(prev.logs,
                    [action |-> <<"Starting execution">>, status |-> "info"])])

\* handleExecute, the setAgentState at the top of iteration i (0-based)
stepExecuting(prev, i) ==
    Spread(prev,
        [currentStep |-> i,
         actions |-> [idx \in DOMAIN prev.actions |->
                        IF idx = i + 1
                        THEN [prev.actions[idx] EXCEPT !.status = "executing"]
                        ELSE prev.actions[idx]]])

\* handleExecute, the setAgentState after the simulated delay of iteration i;
\* action is actions[i] of the closure.
stepFinished(prev, i, action, success) ==
    Spread(prev,
        [actions |-> [idx \in DOMAIN prev.actions |->
                        IF idx = i + 1
                        THEN Spread(prev.actions[idx],
                                [status |-> IF success THEN "completed" ELSE "failed",
                                 reason |-> IF success THEN "Action completed successfully"
                                            ELSE "Element not found"])
                        ELSE prev.actions[idx]],
         logs |-> Append(prev.logs,
                    [action |-> <<action.type, ": ", action.description>>,
                     status |-> IF success THEN "success" ELSE "error",
                     details |-> IF success THEN <<"Target element clicked">>
                                 ELSE <<"Retrying...">>])])

\* The instants new Date() can read.
Instants == 0..MaxClock

\* now is what new Date() reads when the summary is generated.
generateSummary(g, actions, now) ==
    [goal |-> g,
     actionsExecuted |-> Len(actions),
     lines |-> [i \in DOMAIN actions |->
                  [n |-> i, type |-> actions[i].type,
                   description |-> actions[i].description,
                   status |-> actions[i].status]],
     generated |-> now]

\* App.tsx generatePlaywrightScript: one entry per action, the empty text for
\* the kinds it has no statement for.
generatePlaywrightScript(actions) ==
    [i \in DOMAIN actions |->
        IF actions[i].type = "click"
        THEN << "// ", actions[i].description, "page.click",
                IF targetSelector(actions[i]) # <<>>
                THEN targetSelector(actions[i]) ELSE <<"#element">> >>
        ELSE IF actions[i].type = "type"
        THEN << "// ", actions[i].description, "page.fill",
                IF targetSelector(actions[i]) # <<>>
                THEN targetSelector(actions[i]) ELSE <<"#input">>,
                Field(actions[i], "value") >>
        ELSE <<>>]

\* JSON.stringify(logs, null, 2): each entry as its properties in insertion
\* order, a property that is undefined left out.
generateRunLog(logs) ==
    [k \in DOMAIN logs |->
        << <<"action", logs[k].action>>, <<"status", logs[k].status>> >>
        \o (IF "details" \in DOMAIN logs[k] THEN << <<"details", logs[k].details>> >>
            ELSE <<>>)]

\* handleExecute, the artifacts built in the 1000 ms timer from the closure
makeArtifacts(closure, now) ==
    << [type |-> "summary",
        content |-> generateSummary(closure.goal, closure.actions, now),
        filename |-> "execution-summary.md"],
       [type |-> "playwright-script",
        content |-> generatePlaywrightScript(closure.actions),
        filename |-> "workflow.spec.ts"],
       [type |-> "run-log",
        content |-> generateRunLog(closure.logs),
        filename |-> "run-log.json"] >>

\* The completion update written without ...prev.logs: the log is replaced.
executionCompleteFreshLog(prev, artifacts) ==
    Spread(prev,
        [status |-> "completed", artifacts |-> artifacts,
         logs |-> << [action |-> <<"Execution complete">>, status |-> "success",
                      details |-> <<ToString(Len(artifacts)), " artifacts generated">>] >>])

\* handleExecute, the setAgentState of the 1000 ms timer
executionComplete(prev, artifacts) ==
    Spread(prev,
        [status |-> "completed", artifacts |-> artifacts,
         logs |-> Append(prev.logs,
                    [action |-> <<"Execution complete">>, status |-> "success",
                     details |-> <<ToString(Len(artifacts)), " artifacts generated">>])])

\* handleSubmit of AgentView, then handleGoalSubmit: the state update and the
\* two timers.
GoalSubmit ==
    /\ FormVisible(agentState)
    /\ submits < MaxSubmits
    /\ \E typed \in GoalInputs :
          /\ trim(typed) # <<>>
          /\ agentState' = goalReceived(agentState, trim(typed))
          /\ timers' = timers \o << Timer("analysis", AnalysisDelay, trim(typed)),
                                    Timer("plan", PlanDelay, trim(typed)) >>
    /\ submits' = submits + 1
    /\ UNCHANGED <<runs, clsVars, orVars, wfVars, genVars, feVars, voiceVars, brVars>>

\* Time passes: no timer is due, every timer comes one tick closer.
Tick ==
    /\ timers # <<>>
    /\ \A k \in DOMAIN timers : timers[k].due > 0
    /\ timers' = [k \in DOMAIN timers |-> [timers[k] EXCEPT !.due = @ - 1]]
    /\ UNCHANGED <<agentState, runs, submits, clsVars, orVars, wfVars, genVars, feVars, voiceVars, brVars>>

\* The timer the event loop runs next: the first registered among those due.
DueTimers == { k \in DOMAIN timers : timers[k].due = 0 }
NextTimer == CHOOSE k \in DueTimers : \A j \in DueTimers : k <= j
WithoutTimer(k) == SubSeq(timers, 1, k - 1) \o SubSeq(timers, k + 1, Len(timers))

AnalysisTimer ==
    /\ DueTimers # {}
    /\ timers[NextTimer].kind = "analysis"
    /\ agentState' = analysisDone(agentState)
    /\ timers' = WithoutTimer(NextTimer)
    /\ UNCHANGED <<runs, submits, clsVars, orVars, wfVars, genVars, feVars, voiceVars, brVars>>

PlanTimer ==
    /\ DueTimers # {}
    /\ timers[NextTimer].kind = "plan"
    /\ agentState' = planGenerated(agentState, timers[NextTimer].owner)
    /\ timers' = WithoutTimer(NextTimer)
    /\ UNCHANGED <<runs, submits, clsVars, orVars, wfVars, genVars, feVars, voiceVars, brVars>>

\* The closure of one handleExecute call: the agentState of the render it was
\* created in and the loop's position. started and recorded list the steps the
\* loop has marked executing and the steps whose outcome it has recorded. Over
\* an empty plan the loop body is never entered.
Closure(state) ==
    [actions |-> state.actions, goal |-> state.goal, logs |-> state.logs,
     i |-> 0, pc |-> IF state.actions = <<>> THEN "artifacts" ELSE "step",
     started |-> IF state.actions = <<>> THEN <<>> ELSE <<0>>, recorded |-> <<>>]

\* A loop that advances by two: every other step is skipped.
skipStep(i) == i + 2

\* the i++ of the loop of handleExecute
nextStep(i) == i + 1

\* handleExecute up to its first await: the delay of the first iteration, or
\* over an empty plan the end of the call, with the artifact timer set.
handleExecute ==
    /\ Len(runs) < MaxRuns
    /\ runs' = Append(runs, Closure(agentState))
    /\ IF agentState.actions = <<>>
       THEN /\ agentState' = executionStarted(agentState)
            /\ timers' = Append(timers, Timer("artifacts", ArtifactDelay, Len(runs) + 1))
       ELSE /\ agentState' = stepExecuting(executionStarted(agentState), 0)
            /\ timers' = Append(timers, Timer("step", StepDelay, Len(runs) + 1))
    /\ UNCHANGED <<submits, clsVars, orVars, wfVars, genVars, feVars, voiceVars, brVars>>

\* A click on Execute Plan.
Execute ==
    /\ ButtonsVisible(agentState)
    /\ handleExecute

\* handleExecute invoked on an empty plan. AgentView renders no button for it:
\* this is the handler called directly.
ExecuteCall ==
    /\ agentState.status = "planning"
    /\ agentState.actions = <<>>
    /\ handleExecute

\* The simulated delay of iteration i is over: the outcome is drawn and
\* recorded; the loop goes on to the retry wait, to the next iteration or to
\* the artifact timer.
StepTimer ==
    /\ DueTimers # {}
    /\ timers[NextTimer].kind = "step"
    /\ \E success \in BOOLEAN :
          LET r == timers[NextTimer].owner
              run == runs[r]
              n == Len(run.actions)
              finished == stepFinished(agentState, run.i, run.actions[run.i + 1], success)
              rec == Append(run.recorded, run.i)
          IN  IF ~success /\ run.i < n - 1
              THEN /\ agentState' = finished
                   /\ runs' = [runs EXCEPT ![r].pc = "retry", ![r].recorded = rec]
                   /\ timers' = Append(WithoutTimer(NextTimer), Timer("retry", RetryDelay, r))
              ELSE IF nextStep(run.i) < n
              THEN /\ agentState' = stepExecuting(finished, nextStep(run.i))
                   /\ runs' = [runs EXCEPT ![r].i = nextStep(run.i),
                                           ![r].recorded = rec,
                                           ![r].started = Append(@, nextStep(run.i))]
                   /\ timers' = Append(WithoutTimer(NextTimer), Timer("step", StepDelay, r))
              ELSE /\ agentState' = finished
                   /\ runs' = [runs EXCEPT ![r].i = nextStep(run.i), ![r].pc = "artifacts",
                                           ![r].recorded = rec]
                   /\ timers' = Append(WithoutTimer(NextTimer),
                                       Timer("artifacts", ArtifactDelay, r))
    /\ UNCHANGED <<submits, clsVars, orVars, wfVars, genVars, feVars, voiceVars, brVars>>

\* The 500 ms wait after a failed step is over: the next iteration starts.
RetryTimer ==
    /\ DueTimers # {}
    /\ timers[NextTimer].kind = "retry"
    /\ LET r == timers[NextTimer].owner
           run == runs[r]
       IN  /\ agentState' = stepExecuting(agentState, nextStep(run.i))
           /\ runs' = [runs EXCEPT ![r].i = nextStep(run.i), ![r].pc = "step",
                                   ![r].started = Append(@, nextStep(run.i))]
           /\ timers' = Append(WithoutTimer(NextTimer), Timer("step", StepDelay, r))
    /\ UNCHANGED <<submits, clsVars, orVars, wfVars, genVars, feVars, voiceVars, brVars>>

\* The 1000 ms timer after the loop: the artifacts are generated and stored.
ArtifactTimer ==
    /\ DueTimers # {}
    /\ timers[NextTimer].kind = "artifacts"
    /\ \E now \in Instants :
          LET r == timers[NextTimer].owner
          IN  /\ agentState' = executionComplete(agentState, makeArtifacts(runs[r], now))
              /\ runs' = [runs EXCEPT ![r].pc = "done"]
              /\ timers' = WithoutTimer(NextTimer)
    /\ UNCHANGED <<submits, clsVars, orVars, wfVars, genVars, feVars, voiceVars, brVars>>

\* A click on Reset: handleReset.
Reset ==
    /\ ButtonsVisible(agentState)
    /\ agentState' = initialState
    /\ UNCHANGED <<timers, runs, submits, clsVars, orVars, wfVars, genVars, feVars, voiceVars, brVars>>

-----------------------------------------------------------------------------
(* Artifact generator: the three generators of App.tsx and the script
   generator of playwright-runner.ts, applied to a final state *)

\* playwright-runner.ts generatePlaywrightScript: per action the comment line
\* and the statement of its kind; no statement for the other kinds.
generatePlaywrightScriptRunner(actions) ==
    [i \in DOMAIN actions |->
        LET comment == [step |-> i, comment |-> actions[i].description]
            placeholder == <<"#selector-", ToString(i)>>
        IN  CASE actions[i].type = "click" ->
                   Spread(comment, [call |-> "page.click", selector |-> placeholder])
              [] actions[i].type = "type" ->
                   Spread(comment, [call |-> "page.fill", selector |-> placeholder,
                                    value |-> Field(actions[i], "value")])
              [] actions[i].type = "wait" ->
                   Spread(comment, [call |-> "page.waitForTimeout", ms |-> 1000])
              [] actions[i].type = "scroll" ->
                   Spread(comment, [call |-> "page.evaluate", scrollBy |-> 300])
              [] OTHER -> comment]

\* The plan after its run: every action completed, or the one at failedAt
\* failed (0 for none).
Finished(actions, failedAt) ==
    [i \in DOMAIN actions |->
        [actions[i] EXCEPT !.status = IF i = failedAt THEN "failed" ELSE "completed"]]

FinalLogs ==
    { <<>>,
      << [action |-> <<"Starting execution">>, status |-> "info"],
         [action |-> <<"Execution complete">>, status |-> "success",
          details |-> <<"3", " artifacts generated">>] >> }

\* Final states the generators are applied to.
FinalStates ==
    { [goal |-> g, actions |-> Finished(p, f), logs |-> l] :
        g \in { kwCart, CheckoutGoal },
        p \in TestPlans, f \in 0..1, l \in FinalLogs }

\* One call of the generators at the instant now.
generateAll(state, now) ==
    [artifacts |-> makeArtifacts(state, now),
     driverScript |-> generatePlaywrightScriptRunner(state.actions),
     at |-> now]

GenerateFirst ==
    /\ genPc = "ready"
    /\ \E now \in Instants : genFirst' = generateAll(genState, now)
    /\ genPc' = "once"
    /\ UNCHANGED <<genState, genSecond, uiVars, clsVars, orVars, wfVars, feVars, voiceVars,
                   brVars>>

\* The second call, not earlier than the first.
GenerateAgain ==
    /\ genPc = "once"
    /\ \E now \in Instants :
          /\ now >= genFirst.at
          /\ genSecond' = generateAll(genState, now)
    /\ genPc' = "twice"
    /\ UNCHANGED <<genState, genFirst, uiVars, clsVars, orVars, wfVars, feVars, voiceVars,
                   brVars>>

-----------------------------------------------------------------------------
(* findElement applied to an element and a page *)

\* Elements looked up: targets of the classifier and of the test actions.
TestElements ==
    { productAction.target, couponAction.target,
      [id |-> "ghost", tag |-> "div", text |-> "Ghost"] }

FindElement ==
    /\ fePc = "called"
    /\ feResult' = findElement(feArgs.page, feArgs.element, feArgs.lookup)
    /\ fePc' = "returned"
    /\ UNCHANGED <<feArgs, uiVars, clsVars, orVars, wfVars, genVars, voiceVars, brVars>>

-----------------------------------------------------------------------------
(* Voice input: startListening of speech.ts and the microphone of AgentView *)

NotSupported == "Speech recognition not supported"

\* What the recognizer may hear.
Transcripts == { CheckoutGoal, <<"h", "e", "l", "l", "o">> }

\* startListening(onResult, onError?): what it returns, what it reports to
\* onError and how many recognitions it starts.
startListening(supported, hasOnError) ==
    IF ~supported
    THEN [returned |-> FALSE,
          errors |-> IF hasOnError THEN <<NotSupported>> ELSE <<>>,
          started |-> 0, results |-> <<>>]
    ELSE [returned |-> TRUE, errors |-> <<>>, started |-> 1, results |-> <<>>]

StartListening ==
    /\ voicePc = "mounted"
    /\ slResult = Absent
    /\ \E hasOnError \in BOOLEAN :
          slResult' = Spread(startListening(speechSupported, hasOnError),
                             [onError |-> hasOnError])
    /\ UNCHANGED <<voicePc, speechSupported, input, isListening, recPc>>
    /\ UNCHANGED <<uiVars, clsVars, orVars, wfVars, genVars, feVars, brVars>>

\* recognition.onresult of the recognition startListening started: the
\* transcript goes to onResult.
ListeningResult ==
    /\ voicePc = "mounted"
    /\ slResult # Absent
    /\ slResult.started = 1
    /\ slResult.results = <<>> /\ slResult.errors = <<>>
    /\ \E transcript \in Transcripts :
          slResult' = [slResult EXCEPT !.results = Append(@, transcript)]
    /\ UNCHANGED <<voicePc, speechSupported, input, isListening, recPc>>
    /\ UNCHANGED <<uiVars, clsVars, orVars, wfVars, genVars, feVars, brVars>>

\* recognition.onerror of that recognition: onError?.(event.error)
ListeningError ==
    /\ voicePc = "mounted"
    /\ slResult # Absent
    /\ slResult.started = 1
    /\ slResult.onError
    /\ slResult.errors = <<>>
    /\ slResult' = [slResult EXCEPT !.errors = Append(@, "no-speech")]
    /\ UNCHANGED <<voicePc, speechSupported, input, isListening, recPc>>
    /\ UNCHANGED <<uiVars, clsVars, orVars, wfVars, genVars, feVars, brVars>>

\* onChange of the goal input
ChangeInput ==
    /\ voicePc = "mounted"
    /\ FormVisible(agentState)
    /\ \E typed \in GoalInputs \cup { <<>> } :
          /\ typed # input
          /\ input' = typed
    /\ UNCHANGED <<voicePc, speechSupported, isListening, recPc, slResult>>
    /\ UNCHANGED <<uiVars, clsVars, orVars, wfVars, genVars, feVars, brVars>>

\* handleVoiceToggle. recognitionRef.current is null when the platform has no
\* recognition, and ?. then calls nothing; start() on a recognition that has
\* not ended throws and the handler stops there.
VoiceToggle ==
    /\ voicePc = "mounted"
    /\ FormVisible(agentState)
    /\ IF isListening
       THEN /\ recPc' = IF speechSupported /\ recPc = "active" THEN "closing" ELSE recPc
            /\ UNCHANGED isListening
       ELSE IF speechSupported /\ recPc # "idle"
            THEN UNCHANGED <<recPc, isListening>>
            ELSE /\ recPc' = IF speechSupported THEN "active" ELSE recPc
                 /\ isListening' = TRUE
    /\ UNCHANGED <<voicePc, speechSupported, input, slResult>>
    /\ UNCHANGED <<uiVars, clsVars, orVars, wfVars, genVars, feVars, brVars>>

\* recognition.onresult: the transcript becomes the input.
RecognitionResult ==
    /\ voicePc = "mounted"
    /\ recPc = "active"
    /\ \E transcript \in Transcripts : input' = transcript
    /\ isListening' = FALSE
    /\ recPc' = "closing"
    /\ UNCHANGED <<voicePc, speechSupported, slResult>>
    /\ UNCHANGED <<uiVars, clsVars, orVars, wfVars, genVars, feVars, brVars>>

\* recognition.onerror
RecognitionError ==
    /\ voicePc = "mounted"
    /\ recPc = "active"
    /\ isListening' = FALSE
    /\ recPc' = "closing"
    /\ UNCHANGED <<voicePc, speechSupported, input, slResult>>
    /\ UNCHANGED <<uiVars, clsVars, orVars, wfVars, genVars, feVars, brVars>>

\* recognition.onend
RecognitionEnd ==
    /\ voicePc = "mounted"
    /\ recPc \in { "active", "closing" }
    /\ isListening' = FALSE
    /\ recPc' = "idle"
    /\ UNCHANGED <<voicePc, speechSupported, input, slResult>>
    /\ UNCHANGED <<uiVars, clsVars, orVars, wfVars, genVars, feVars, brVars>>

-----------------------------------------------------------------------------
(* Browser handle: initBrowser, navigateTo and closeBrowser of
   playwright-runner.ts. Each call runs up to its next await in one step, and
   the awaited operation settles in a later step. *)

Call(op, pc, got) == [op |-> op, pc |-> pc, got |-> got]

\* if (!browser) { browser = await chromium.launch(...) }, up to the await:
\* the call op launches a browser when the handle is empty.
launchIfNone(op, otherwise) ==
    IF browser = NoBrowser
    THEN /\ browsers' = Append(browsers, "open")
         /\ launches' = launches + 1
         /\ brCalls' = Append(brCalls, Call(op, "launch", Len(browsers) + 1))
    ELSE /\ brCalls' = Append(brCalls, otherwise)
         /\ UNCHANGED <<browsers, launches>>

\* initBrowser() is called.
InitBrowserCall ==
    /\ brPc = "on"
    /\ Len(brCalls) < MaxCalls
    /\ launchIfNone("initBrowser", Call("initBrowser", "done", NoBrowser))
    /\ brClosed' = FALSE
    /\ UNCHANGED <<brPc, browser>>
    /\ UNCHANGED <<uiVars, clsVars, orVars, wfVars, genVars, feVars, voiceVars>>

\* navigateTo(url) is called: initBrowser when the handle is empty,
\* otherwise browser.newPage() at once.
NavigateToCall ==
    /\ brPc = "on"
    /\ Len(brCalls) < MaxCalls
    /\ launchIfNone("navigateTo", Call("navigateTo", "newPage", browser))
    /\ brClosed' = FALSE
    /\ UNCHANGED <<brPc, browser>>
    /\ UNCHANGED <<uiVars, clsVars, orVars, wfVars, genVars, feVars, voiceVars>>

\* chromium.launch resolves: browser = the launched browser. initBrowser
\* returns; a navigateTo that awaited it goes on.
LaunchResolves ==
    /\ brPc = "on"
    /\ \E c \in DOMAIN brCalls :
          /\ brCalls[c].pc = "launch"
          /\ browser' = brCalls[c].got
          /\ brCalls' = [brCalls EXCEPT ![c].pc =
                            IF brCalls[c].op = "initBrowser" THEN "done" ELSE "initialized"]
    /\ UNCHANGED <<brPc, browsers, launches, brClosed>>
    /\ UNCHANGED <<uiVars, clsVars, orVars, wfVars, genVars, feVars, voiceVars>>

\* navigateTo after await initBrowser(): browser!.newPage() is called on the
\* handle as it is now; on an empty handle that is a TypeError.
NavigateNewPage ==
    /\ brPc = "on"
    /\ \E c \in DOMAIN brCalls :
          /\ brCalls[c].pc = "initialized"
          /\ brCalls' = [brCalls EXCEPT ![c] =
                            IF browser = NoBrowser
                            THEN Call("navigateTo", "threw", NoBrowser)
                            ELSE Call("navigateTo", "newPage", browser)]
    /\ UNCHANGED <<brPc, browser, browsers, launches, brClosed>>
    /\ UNCHANGED <<uiVars, clsVars, orVars, wfVars, genVars, feVars, voiceVars>>

\* browser.newPage() settles: page = the new page, and page.goto(url) is
\* called; on a browser closed in the meantime it rejects.
NewPageSettles ==
    /\ brPc = "on"
    /\ \E c \in DOMAIN brCalls :
          /\ brCalls[c].pc = "newPage"
          /\ IF browsers[brCalls[c].got] = "closed"
             THEN /\ brCalls' = [brCalls EXCEPT ![c].pc = "threw"]
                  /\ UNCHANGED page
             ELSE /\ brCalls' = [brCalls EXCEPT ![c].pc = "goto"]
                  /\ page' = "open"
    /\ UNCHANGED <<brPc, browser, browsers, launches, brClosed>>
    /\ UNCHANGED <<wfActions, wfI, wfLogs, wfPc, wfResult, wfAttempts, wfOps>>
    /\ UNCHANGED <<uiVars, clsVars, orVars, genVars, feVars, voiceVars>>

\* page.goto(url) settles: navigateTo returns or throws.
GotoSettles ==
    /\ brPc = "on"
    /\ \E c \in DOMAIN brCalls, ok \in BOOLEAN :
          /\ brCalls[c].pc = "goto"
          /\ brCalls' = [brCalls EXCEPT ![c].pc = IF ok THEN "done" ELSE "threw"]
    /\ UNCHANGED <<brPc, browser, browsers, launches, brClosed>>
    /\ UNCHANGED <<uiVars, clsVars, orVars, wfVars, genVars, feVars, voiceVars>>

\* closeBrowser() is called: browser.close() when there is a handle.
CloseBrowserCall ==
    /\ brPc = "on"
    /\ Len(brCalls) < MaxCalls
    /\ brCalls' = Append(brCalls,
                      IF browser = NoBrowser
                      THEN Call("closeBrowser", "done", NoBrowser)
                      ELSE Call("closeBrowser", "closing", browser))
    /\ launches' = 0
    /\ UNCHANGED <<brPc, browser, browsers, brClosed>>
    /\ UNCHANGED <<uiVars, clsVars, orVars, wfVars, genVars, feVars, voiceVars>>

\* browser.close() resolves: browser = null, page = null.
CloseResolves ==
    /\ brPc = "on"
    /\ \E c \in DOMAIN brCalls :
          /\ brCalls[c].pc = "closing"
          /\ browsers' = [browsers EXCEPT ![brCalls[c].got] = "closed"]
          /\ brCalls' = [brCalls EXCEPT ![c].pc = "done"]
    /\ browser' = NoBrowser
    /\ page' = "null"
    /\ brClosed' = TRUE
    /\ UNCHANGED <<brPc, launches>>
    /\ UNCHANGED <<wfActions, wfI, wfLogs, wfPc, wfResult, wfAttempts, wfOps>>
    /\ UNCHANGED <<uiVars, clsVars, orVars, genVars, feVars, voiceVars>>

-----------------------------------------------------------------------------
(* Specifications *)

genOff == genPc = "off" /\ genState = Absent /\ genFirst = Absent /\ genSecond = Absent
feOff == fePc = "off" /\ feArgs = Absent /\ feResult = <<>>
voiceOff ==
    /\ voicePc = "off" /\ speechSupported = FALSE /\ input = <<>>
    /\ isListening = FALSE /\ recPc = "idle" /\ slResult = Absent
brOff ==
    /\ brPc = "off" /\ browser = NoBrowser /\ brCalls = <<>> /\ browsers = <<>>
    /\ launches = 0 /\ brClosed = FALSE
uiOff == agentState = initialState /\ timers = <<>> /\ runs = <<>> /\ submits = 0
clsOff == goal = <<>> /\ clsPc = "off" /\ plan = <<>> /\ mock = Absent
orOff == orPc = "off" /\ orKey = FALSE /\ orResponse = NoRemote /\ orResult = Absent
wfOff ==
    /\ page = "null" /\ wfActions = <<>> /\ wfI = 0 /\ wfLogs = <<>> /\ wfPc = "off"
    /\ wfResult = Absent /\ wfAttempts = <<>> /\ wfOps = <<>>

\* The front end after App is mounted.
Init == uiOff /\ clsOff /\ orOff /\ wfOff /\ genOff /\ feOff /\ voiceOff /\ brOff

Next ==
    \/ GoalSubmit
    \/ Tick
    \/ AnalysisTimer
    \/ PlanTimer
    \/ Execute
    \/ StepTimer
    \/ RetryTimer
    \/ ArtifactTimer
    \/ Reset

Spec == Init /\ [][Next]_vars

\* executeWorkflow called with a plan, with or without an open page.
InitDriver ==
    /\ uiOff /\ clsOff /\ orOff /\ genOff /\ feOff /\ voiceOff /\ brOff
    /\ page \in { "null", "open" }
    /\ wfActions \in TestPlans
    /\ wfI = 0 /\ wfLogs = <<>> /\ wfPc = "loop" /\ wfResult = Absent
    /\ wfAttempts = <<>> /\ wfOps = <<>>

NextDriver ==
    \/ WorkflowStep
    \/ WorkflowRecover
    \/ WorkflowRecoverThrows
    \/ WorkflowReturn

SpecDriver == InitDriver /\ [][NextDriver]_vars

\* Either executor: the front end's handleExecute or the driver's
\* executeWorkflow. The front end's events need App mounted, which the driver
\* harness leaves out (wfPc = "off" only in the front end's states).
InitExecutors == Init \/ InitDriver

NextExecutors ==
    \/ wfPc = "off" /\ Next
    \/ NextDriver

SpecExecutors == InitExecutors /\ [][NextExecutors]_vars

\* analyzeScreen called with a goal, with or without a credential.
InitOracle ==
    /\ uiOff /\ wfOff /\ genOff /\ feOff /\ voiceOff /\ brOff
    /\ goal \in GoalInputs
    /\ clsPc = "off" /\ plan = <<>> /\ mock = Absent
    /\ orPc = "idle" /\ orKey \in BOOLEAN /\ orResponse = NoRemote /\ orResult = Absent

NextOracle ==
    \/ OracleCall
    \/ OracleRemoteThrows
    \/ OracleRemoteResponds

SpecOracle == InitOracle /\ [][NextOracle]_vars

\* Both keyword tables applied to a goal text.
InitClassifier ==
    /\ uiOff /\ wfOff /\ orOff /\ genOff /\ feOff /\ voiceOff /\ brOff
    /\ goal \in GoalTexts
    /\ clsPc = "input" /\ plan = <<>> /\ mock = Absent

NextClassifier ==
    \/ Classify
    \/ MockAnalyze

SpecClassifier == InitClassifier /\ [][NextClassifier]_vars

\* The generators called twice on a final state.
InitArtifacts ==
    /\ uiOff /\ clsOff /\ orOff /\ wfOff /\ feOff /\ voiceOff /\ brOff
    /\ genPc = "ready" /\ genState \in FinalStates
    /\ genFirst = Absent /\ genSecond = Absent

NextArtifacts ==
    \/ GenerateFirst
    \/ GenerateAgain

SpecArtifacts == InitArtifacts /\ [][NextArtifacts]_vars

\* findElement called with an element, with or without an open page, on
\* every combination of lookup outcomes.
InitFinder ==
    /\ uiOff /\ clsOff /\ orOff /\ wfOff /\ genOff /\ voiceOff /\ brOff
    /\ fePc = "called" /\ feResult = <<>>
    /\ feArgs \in [page : { "null", "open" }, element : TestElements,
                   lookup : [1..5 -> LookupOutcomes]]

NextFinder == FindElement

SpecFinder == InitFinder /\ [][NextFinder]_vars

\* handleExecute and executeWorkflow applied to plans, the empty plan
\* included: the front end with its handler called directly on an empty plan,
\* and the driver harness.
NextEmptyPlan ==
    \/ wfPc = "off" /\ GoalSubmit
    \/ wfPc = "off" /\ Tick
    \/ wfPc = "off" /\ AnalysisTimer
    \/ wfPc = "off" /\ PlanTimer
    \/ wfPc = "off" /\ ExecuteCall
    \/ wfPc = "off" /\ ArtifactTimer
    \/ NextDriver

SpecEmptyPlan == InitExecutors /\ [][NextEmptyPlan]_vars

\* What the event loop does by itself: it runs the timer that is due, or time
\* passes. At most one of these is enabled in a state.
EventLoop ==
    \/ Tick
    \/ AnalysisTimer
    \/ PlanTimer
    \/ StepTimer
    \/ RetryTimer
    \/ ArtifactTimer

\* A session in which Execute Plan is clicked at most once.
NextSingleRun == Next /\ Len(runs') <= 1

\* Such a session with its timers firing. Nothing obliges the user to act.
SpecFair == Init /\ [][NextSingleRun]_vars /\ WF_vars(EventLoop)

\* AgentView mounted on a platform with or without speech recognition.
InitVoice ==
    /\ uiOff /\ clsOff /\ orOff /\ wfOff /\ genOff /\ feOff /\ brOff
    /\ voicePc = "mounted" /\ speechSupported \in BOOLEAN /\ input = <<>>
    /\ isListening = FALSE /\ recPc = "idle" /\ slResult = Absent

NextVoice ==
    \/ StartListening
    \/ ListeningResult
    \/ ListeningError
    \/ ChangeInput
    \/ VoiceToggle
    \/ RecognitionResult
    \/ RecognitionError
    \/ RecognitionEnd

SpecVoice == InitVoice /\ [][NextVoice]_vars


\* The driver module loaded: no browser, no page, and up to MaxCalls calls
\* of initBrowser, navigateTo and closeBrowser in any interleaving.
InitBrowser ==
    /\ uiOff /\ clsOff /\ orOff /\ wfOff /\ genOff /\ feOff /\ voiceOff
    /\ brPc = "on" /\ browser = NoBrowser /\ brCalls = <<>> /\ browsers = <<>>
    /\ launches = 0 /\ brClosed = FALSE

NextBrowser ==
    \/ InitBrowserCall
    \/ NavigateToCall
    \/ LaunchResolves
    \/ NavigateNewPage
    \/ NewPageSettles
    \/ GotoSettles
    \/ CloseBrowserCall
    \/ CloseResolves

SpecBrowser == InitBrowser /\ [][NextBrowser]_vars

-----------------------------------------------------------------------------
(* Properties *)

\* seq is 0, 1, 2, ... : increasing by one from 0, nothing skipped
Consecutive(seq) == \A k \in DOMAIN seq : seq[k] = k - 1

\* C1: a run processes the actions one at a time in increasing plan position,
\* skipping none, and starts step i+1 only after the outcome of step i is
\* recorded. In the front end: the steps a loop has marked executing and the
\* steps whose outcome it has recorded are both 0, 1, 2, ...; at most one
\* started step is without outcome, and it is the one in flight; a loop that
\* has left its last iteration has recorded every step. In the driver: the
\* calls of executeAction are for indices 0, 1, 2, ..., each call's log is
\* pushed before the next call, the k-th log names the k-th action, and a
\* workflow that returns has attempted every action.
C1_StepsInOrder ==
    /\ \A r \in DOMAIN runs :
          LET run == runs[r]
          IN  /\ Consecutive(run.started)
              /\ Consecutive(run.recorded)
              /\ Len(run.started) <= Len(run.actions)
              /\ Len(run.started) - Len(run.recorded) \in { 0, 1 }
              /\ run.pc = "step" =>
                    /\ Len(run.started) = Len(run.recorded) + 1
                    /\ run.started[Len(run.started)] = run.i
              /\ run.pc = "retry" => Len(run.started) = Len(run.recorded)
              /\ run.pc \in { "artifacts", "done" } =>
                    Len(run.recorded) = Len(run.actions)
    /\ wfPc # "off" =>
          /\ Consecutive([k \in DOMAIN wfAttempts |-> wfAttempts[k].index])
          /\ Len(wfLogs) = Len(wfAttempts)
          /\ \A k \in DOMAIN wfLogs : wfLogs[k].action = wfActions[k].description
          /\ wfPc = "loop" => wfI = Len(wfLogs)
          /\ wfPc = "returned" => Len(wfAttempts) = Len(wfActions)

\* C1 witness: a front-end run over the 4-action plan has finished, with a
\* failed step in it.
C1_Witness ==
    \E r \in DOMAIN runs :
        /\ runs[r].pc = "done"
        /\ Len(runs[r].actions) = 4
        /\ \E k \in DOMAIN agentState.actions : agentState.actions[k].status = "failed"

Summary == agentState.artifacts[1].content
RunLog == agentState.artifacts[3].content

\* C2: when a run has completed and every action of the plan succeeded, every
\* per-action line of the summary artifact shows the action's final status,
\* completed.
C2_SummaryShowsFinalStatus ==
    ( /\ agentState.status = "completed"
      /\ agentState.actions # <<>>
      /\ \A i \in DOMAIN agentState.actions : agentState.actions[i].status = "completed" )
    => \A i \in DOMAIN Summary.lines : Summary.lines[i].status = "completed"

\* C3: when a run over a plan with N actions has completed, the run-log
\* artifact has at least N entries.
C3_RunLogHasEntryPerAction ==
    agentState.status = "completed" => Len(RunLog) >= Len(agentState.actions)

\* C4: executeWorkflow continues after a failed step: when it has ended, every
\* action of the plan was attempted exactly once, and the success flag it
\* returns is true exactly when no log entry has status error.
C4_ContinueOnError ==
    wfPc \in { "returned", "thrown" } =>
        /\ [k \in DOMAIN wfAttempts |-> wfAttempts[k].index]
              = [k \in DOMAIN wfActions |-> k - 1]
        /\ wfPc = "returned" =>
              (wfResult.success <=> \A k \in DOMAIN wfLogs : wfLogs[k].status # "error")

\* The k-th step found no locator and, for a click, had no bounding box to
\* fall back on.
Unresolved(k) ==
    /\ page = "open"
    /\ wfActions[k].type \in { "click", "type" }
    /\ HasTarget(wfActions[k])
    /\ wfAttempts[k].locator = <<>>
    /\ wfActions[k].type = "click" => targetBox(wfActions[k]) = Absent

\* C5: a step whose target is resolved by no strategy and has no usable
\* bounding box is logged with status error, and the run's success flag is
\* false.
C5_ElementNotFoundIsFailure ==
    \A k \in DOMAIN wfLogs :
        Unresolved(k) =>
            /\ wfLogs[k].status = "error"
            /\ wfPc = "returned" => ~wfResult.success

\* C6: no failure of a driver operation escapes executeWorkflow.
C6_NoDriverFailureEscapes == wfPc # "thrown"

\* The text has a curly-brace block: an opening brace with a closing brace
\* somewhere after it.
HasBraceBlock(text) ==
    \E i, j \in DOMAIN text : i < j /\ text[i] = "{" /\ text[j] = "}"

\* C7: analyzeScreen always returns; without a credential, when the remote
\* call fails, when the response has no curly-brace block and when the block
\* fails to parse, what it returns is generateMockAnalysis(goal).
C7_AnalyzeScreenTotal ==
    orPc = "returned" =>
        /\ orResult.kind = "returned"
        /\ ( \/ ~orKey
             \/ orResponse.throws
             \/ ~HasBraceBlock(orResponse.text)
             \/ JSONparse(jsonMatch(orResponse.text)).threw )
           => orResult.value = generateMockAnalysis(goal)

\* C7 witness: with a credential, the response held a block that does not
\* parse, and the fallback for a goal that hits the vocabulary was returned.
C7_Witness ==
    /\ orPc = "returned"
    /\ orKey
    /\ ~orResponse.throws
    /\ HasBraceBlock(orResponse.text)
    /\ JSONparse(jsonMatch(orResponse.text)).threw
    /\ goal = CheckoutGoal
    /\ orResult.kind = "returned"
    /\ Len(orResult.value.elements) = 8

\* C8: the fallback of the oracle adapter is the classifier's output
\* repackaged: its elements are the targets of the classifier's actions, in
\* the same order.
C8_FallbackIsClassifierOutput ==
    clsPc = "both" =>
        [k \in DOMAIN mock.elements |-> mock.elements[k].id]
            = [k \in DOMAIN plan |-> plan[k].target.id]

\* C9: once the state is the initial state, it stays the initial state until
\* the user submits the next goal (the only update that sets analyzing): no
\* callback of an earlier analysis or run changes it.
C9_ResetSilencesCallbacks ==
    [][agentState = initialState =>
          (agentState' = initialState \/ agentState'.status = "analyzing")]_vars

\* C10: whenever a run is in flight the Reset button is offered.
C10_ResetAvailableDuringRun ==
    agentState.status = "executing" => ButtonsVisible(agentState)

\* The steps of the plan on screen that are marked executing, and the execute
\* loops that have not left their last iteration.
ExecutingSteps == { i \in DOMAIN agentState.actions : agentState.actions[i].status = "executing" }
ActiveLoops == { r \in DOMAIN runs : runs[r].pc \in { "step", "retry" } }

\* C11: two steps never run at once: at most one action of AgentState has
\* status executing, and at most one execute loop is active.
C11_OneStepAtATime ==
    /\ Cardinality(ExecutingSteps) <= 1
    /\ Cardinality(ActiveLoops) <= 1

\* The character c is the letter l (lower case) in either case.
SameLetter(c, l) ==
    \/ c = l
    \/ \E i \in DOMAIN LowerChars : LowerChars[i] = l /\ UpperChars[i] = c

\* The text holds the word somewhere, letters compared in either case.
ContainsWord(text, word) ==
    \E i \in 0..(Len(text) - Len(word)) :
        \A j \in DOMAIN word : SameLetter(text[i + j], word[j])

ContainsAny(text, words) == \E w \in words : ContainsWord(text, w)

Vocabulary ==
    { kwProduct, kwFind, kwCart, kwAdd, kwCoupon, kwApply, kwCheckout, kwGuest }

\* C12: generateActionsFromGoal returns the empty list exactly for the goal
\* texts that hold none of the eight vocabulary words, in any letter case.
C12_EmptyPlanIffNoKeyword ==
    clsPc \in { "classified", "both" } =>
        (plan = <<>> <=> ~ContainsAny(goal, Vocabulary))

\* C12 witness: a non-empty goal without any vocabulary word was classified.
C12_Witness ==
    /\ clsPc = "classified"
    /\ goal # <<>>
    /\ ~ContainsAny(goal, Vocabulary)
    /\ plan = <<>>

\* The templates the goal matches, as (type, target id) pairs in the order of
\* the table: product, cart, coupon, checkout.
MatchedTemplates(text) ==
    (IF ContainsAny(text, { kwProduct, kwFind }) THEN << <<"click", "prod-1">> >> ELSE <<>>)
    \o (IF ContainsAny(text, { kwCart, kwAdd }) THEN << <<"click", "add-cart">> >> ELSE <<>>)
    \o (IF ContainsAny(text, { kwCoupon, kwApply }) THEN << <<"type", "coupon-input">> >> ELSE <<>>)
    \o (IF ContainsAny(text, { kwCheckout, kwGuest }) THEN << <<"click", "checkout-btn">> >> ELSE <<>>)

\* C13: the plan is the matched templates in table order, wherever the
\* keywords stand in the text, each once, with distinct ids, strictly
\* increasing order values and status pending; the type action carries the
\* value SAVE20; a goal matching all four groups gives the 4 actions click
\* product, click add-to-cart, type, click checkout.
C13_TableOrder ==
    clsPc \in { "classified", "both" } =>
        /\ [k \in DOMAIN plan |-> <<plan[k].type, plan[k].target.id>>] = MatchedTemplates(goal)
        /\ \A j, k \in DOMAIN plan : j < k =>
              /\ plan[j].id # plan[k].id
              /\ plan[j].order < plan[k].order
        /\ \A k \in DOMAIN plan :
              /\ plan[k].status = "pending"
              /\ plan[k].type = "type" => Field(plan[k], "value") = "SAVE20"
        /\ Len(MatchedTemplates(goal)) = 4 =>
              [k \in DOMAIN plan |-> plan[k].description]
                 = << "Click on first product under $50", "Click Add to Cart button",
                      "Enter coupon code", "Proceed to checkout as guest" >>

\* C13 witness: a goal naming checkout before the product was classified, and
\* the plan has the product click first and the checkout click second.
C13_Witness ==
    /\ clsPc = "classified"
    /\ goal = kwGuest \o <<" ">> \o <<"F", "i", "n", "d">>
    /\ Len(plan) = 2
    /\ plan[1].target.id = "prod-1"
    /\ plan[2].target.id = "checkout-btn"

\* The log a is a prefix of the log b.
IsPrefix(a, b) == Len(a) <= Len(b) /\ SubSeq(b, 1, Len(a)) = a

\* C15 as stated: across every transition, reset included, the previous log is
\* a prefix of the new log.
C15_LogAppendOnly ==
    [][IsPrefix(agentState.logs, agentState'.logs)]_vars

\* C15 amended: across every transition other than the reset the previous log
\* is a prefix of the new log; the reset replaces the state by the initial
\* state, whose log is empty.
C15_LogAppendOnlyUntilReset ==
    [][Reset \/ IsPrefix(agentState.logs, agentState'.logs)]_vars

\* C15 witness: a run has completed and the log holds the entries of the
\* analysis, of the plan, of a step and of the completion.
C15_Witness ==
    /\ agentState.status = "completed"
    /\ Len(agentState.logs) >= 6
    /\ agentState.logs[1].action = <<"Goal received">>
    /\ agentState.logs[Len(agentState.logs)].action = <<"Execution complete">>

\* C14: two generations from the same goal, final action list and final log
\* give the same summary, script and run-log contents.
C14_GeneratorIdempotent ==
    genPc = "twice" =>
        \A k \in 1..3 : genFirst.artifacts[k].content = genSecond.artifacts[k].content

\* The call a statement of the script makes for an action of the given kind.
CallOfKind(type) ==
    CASE type = "click" -> "page.click"
      [] type = "type" -> "page.fill"
      [] type = "wait" -> "page.waitForTimeout"
      [] type = "scroll" -> "page.evaluate"

ScriptKinds == { "click", "type", "wait", "scroll" }

\* C20: both generated scripts have, for every action of kind click, type,
\* wait or scroll, one statement of the matching kind, with the action's
\* resolved locator when it has one and with the action's value for a fill.
C20_ScriptMirrorsPlan ==
    genPc \in { "once", "twice" } =>
        \A k \in DOMAIN genState.actions :
            LET a == genState.actions[k]
                e == genFirst.artifacts[2].content[k]
                d == genFirst.driverScript[k]
            IN  a.type \in ScriptKinds =>
                  /\ e # <<>>
                  /\ e[3] = CallOfKind(a.type)
                  /\ a.type \in { "click", "type" } /\ targetSelector(a) # <<>> =>
                        e[4] = targetSelector(a)
                  /\ a.type = "type" => e[5] = Field(a, "value")
                  /\ "call" \in DOMAIN d
                  /\ d.call = CallOfKind(a.type)
                  /\ a.type \in { "click", "type" } /\ targetSelector(a) # <<>> =>
                        d.selector = targetSelector(a)
                  /\ a.type = "type" => d.value = Field(a, "value")

\* The strategies of findElement in the order of the claim: exact text,
\* aria-label contains, button has-text, link has-text, input placeholder
\* contains.
StrategyPrefixes ==
    << "text=", "[aria-label*=\"", "button:has-text(\"", "a:has-text(\"",
       "input[placeholder*=\"" >>

\* The strategies that meet exactly one element of the page.
UniqueHits(lookup) == { k \in 1..5 : lookup[k] = "one" }

\* C16: findElement returns the first strategy, in the fixed order, that finds
\* exactly one match; a throwing strategy is skipped; it returns none when no
\* strategy does or no page is open.
C16_FirstUniqueStrategy ==
    fePc = "returned" =>
        LET hits == UniqueHits(feArgs.lookup)
        IN  IF feArgs.page = "null" \/ hits = {}
            THEN feResult = <<>>
            ELSE /\ feResult # <<>>
                 /\ feResult[1] = StrategyPrefixes[CHOOSE k \in hits : \A j \in hits : k <= j]
                 /\ feResult[2] = feArgs.element.text

\* The k-th step is a click that resolved no locator and whose target has a
\* bounding box.
CoordinateClick(k) ==
    /\ page = "open"
    /\ wfActions[k].type = "click"
    /\ HasTarget(wfActions[k])
    /\ wfAttempts[k].locator = <<>>
    /\ targetBox(wfActions[k]) # Absent

\* The step issued one driver operation: a mouse click at the centre of the
\* box, ((x + width/2) / 100 * 800, (y + height/2) / 100 * 600).
ClickedCentreOnce(k) ==
    LET box == targetBox(wfActions[k])
        ops == wfAttempts[k].ops
    IN  /\ Len(ops) = 1
        /\ ops[1].op = "mouse.click"
        /\ ops[1].at.x = (2 * box.x + box.width) * 4
        /\ ops[1].at.y = (2 * box.y + box.height) * 3

\* C19 as stated: a click without locator and with a bounding box clicks once
\* at the centre of the box and is logged as success, whatever the box.
C19_CentreClickSucceeds ==
    \A k \in DOMAIN wfAttempts :
        CoordinateClick(k) => ClickedCentreOnce(k) /\ wfLogs[k].status = "success"

\* C19 amended: such a step clicks once at the centre of the box, also for a
\* box of width, height, x or y 0; it is logged as success when the click
\* goes through and as error when the driver's click throws.
C19_CentreClickIssued ==
    \A k \in DOMAIN wfAttempts :
        CoordinateClick(k) =>
            /\ ClickedCentreOnce(k)
            /\ wfLogs[k].status = (IF wfAttempts[k].threw THEN "error" ELSE "success")

\* C19 witness: the click on the box of size zero at the left edge was issued
\* at (0, 300) and logged as success.
C19_Witness ==
    \E k \in DOMAIN wfAttempts :
        /\ CoordinateClick(k)
        /\ targetBox(wfActions[k]) = Box(0, 50, 0, 0)
        /\ wfAttempts[k].ops = << [op |-> "mouse.click", at |-> [x |-> 0, y |-> 300]] >>
        /\ wfLogs[k].status = "success"

\* The runs over an empty plan that take a step in this transition: started
\* by it, or completed by it.
EmptyRunsStepping ==
    { r \in DOMAIN runs' :
        /\ runs'[r].actions = <<>>
        /\ (r \notin DOMAIN runs \/ runs[r] # runs'[r]) }

StepHasStatus(i, statuses) ==
    i \in DOMAIN agentState.actions /\ agentState.actions[i].status \in statuses

\* C17: with the timers firing, a started run reaches a terminal phase
\* (completed or error), and every action marked executing becomes completed
\* or failed.
C17_NoStepHangs ==
    /\ (agentState.status = "executing") ~> (agentState.status \in { "completed", "error" })
    /\ \A i \in 1..4 :
          StepHasStatus(i, { "executing" }) ~> StepHasStatus(i, { "completed", "failed" })

\* Some event takes the view out of the listening state.
LeaveListening ==
    (VoiceToggle \/ RecognitionResult \/ RecognitionError \/ RecognitionEnd)
        /\ ~isListening'

\* startListening on a platform without recognition: nothing started,
\* 'not supported' reported to the error callback, false returned.
StartListeningDegrades ==
    slResult # Absent =>
        /\ slResult.returned = FALSE
        /\ slResult.started = 0
        /\ slResult.results = <<>>
        /\ slResult.errors = IF slResult.onError THEN <<NotSupported>> ELSE <<>>

\* C21: on a platform without speech recognition, startListening starts
\* nothing, reports 'not supported' and returns false, and the view is never
\* in the listening state without an event that takes it out of it.
C21_VoiceDegrades ==
    ~speechSupported =>
        /\ StartListeningDegrades
        /\ isListening => ENABLED LeaveListening

\* One action from one state to the next: unchanged, or one move along
\* pending -> executing -> completed or failed.
ActionMoves(a, b) ==
    \/ a.status = b.status /\ Field(a, "reason") = Field(b, "reason")
    \/ a.status = "pending" /\ b.status = "executing"
    \/ a.status = "executing" /\ b.status \in { "completed", "failed" }

\* C22: while the same plan is in AgentState (no plan timer installs a plan,
\* no reset), the status of each action moves only along pending ->
\* executing -> completed or failed: no outcome without executing first, and
\* status and reason of a completed or failed action never change again.
C22_StatusForward ==
    [][ \/ PlanTimer
        \/ Reset
        \/ \A i \in DOMAIN agentState.actions \cap DOMAIN agentState'.actions :
              ActionMoves(agentState.actions[i], agentState'.actions[i]) ]_vars

\* The log entries of the steps of a run, among those of the other phases.
IsStepEntry(l) == Len(l.action) = 3 /\ l.action[2] = ": "
StepEntries(logs) == SelectSeq(logs, IsStepEntry)

\* The k-th per-step entry of the log is that of action and carries the
\* outcome the plan shows for position k.
StepLogged(state, k, action) ==
    LET entries == StepEntries(state.logs)
    IN  /\ entries[k].action = <<action.type, ": ", action.description>>
        /\ k \in DOMAIN state.actions
        /\ \/ entries[k].status = "success" /\ state.actions[k].status = "completed"
           \/ entries[k].status = "error" /\ state.actions[k].status = "failed"

\* The outcomes the first n loops have recorded so far.
RECURSIVE RecordedSteps(_)
RecordedSteps(n) ==
    IF n = 0 THEN 0 ELSE Len(runs[n].recorded) + RecordedSteps(n - 1)

\* C23: each step appends exactly one log entry, with the step's outcome and
\* before the next step starts. In the front end the log holds one per-step
\* entry for each outcome recorded so far, and after a run over N actions the
\* per-step entries are exactly N, the k-th naming the k-th action and
\* agreeing with its status; in executeWorkflow one log is pushed per
\* iteration and the result returned holds N logs, logs[k].action being
\* actions[k].description.
C23_OneEntryPerStep ==
    /\ Len(StepEntries(agentState.logs)) = RecordedSteps(Len(runs))
    /\ \A r \in DOMAIN runs :
          LET run == runs[r]
          IN  run.pc \in { "artifacts", "done" } =>
                /\ Len(StepEntries(agentState.logs)) = Len(run.actions)
                /\ \A k \in DOMAIN run.actions :
                      StepLogged(agentState, k, run.actions[k])
    /\ wfPc = "loop" => Len(wfLogs) = wfI
    /\ wfPc = "recover" => Len(wfLogs) = wfI + 1
    /\ wfPc = "returned" =>
          /\ Len(wfResult.logs) = Len(wfActions)
          /\ \A k \in DOMAIN wfActions :
                wfResult.logs[k].action = wfActions[k].description

ActionIds(actions) == [k \in DOMAIN actions |-> actions[k].id]

\* C24: whenever the action list of AgentState is not empty, it is the
\* classifier's plan for the goal stored in the state: the same action ids in
\* the same order.
C24_PlanOfCurrentGoal ==
    agentState.actions # <<>> =>
        ActionIds(agentState.actions) = ActionIds(generateActionsFromGoal(agentState.goal))

\* The moves of AgentState.status: forward through the phases, and back to
\* analyzing from planning when a new goal is submitted.
StatusMoves ==
    { <<"idle", "analyzing">>, <<"analyzing", "planning">>,
      <<"planning", "analyzing">>, <<"planning", "executing">>,
      <<"executing", "completed">> }

\* C25: the status stays or moves forward through idle -> analyzing ->
\* planning -> executing -> completed, with planning -> analyzing on a new
\* goal and any phase -> idle on reset: never from executing back to
\* analyzing or planning, never from completed to planning; and artifacts
\* are non-empty only when the status is completed.
C25_StatusForward ==
    [][ /\ \/ Reset
           \/ agentState'.status = agentState.status
           \/ <<agentState.status, agentState'.status>> \in StatusMoves
        /\ agentState'.artifacts # <<>> => agentState'.status = "completed" ]_vars

\* What executeAction answers on the page handle as it is.
ProbeLog ==
    executeAction(page, productAction,
                  [lookup |-> [k \in 1..5 |-> "one"], opThrows |-> FALSE]).log

\* C26: between two closeBrowser calls at most one browser is launched,
\* whatever the interleaving of initBrowser and navigateTo calls; and once a
\* closeBrowser has completed, with no call started since, the browser and
\* the page handle are empty and executeAction reports 'No page initialized'.
C26_BrowserSingleton ==
    /\ launches <= 1
    /\ brClosed =>
          /\ browser = NoBrowser
          /\ page = "null"
          /\ ProbeLog.status = "error"
          /\ ProbeLog.details = "No page initialized"

====
